---- MODULE Spec2Model ----
(***************************************************************************)
(* State-machine model of the Z-boson fitting script (z_boson_gui.py):     *)
(* ingestion (read_data), the two outlier filters, the filter/re-fit loop  *)
(* of fit_to_data, the reduced chi-square and the result summary, driven   *)
(* by the handlers of the Tk window.                                       *)
(*                                                                         *)
(* Numbers are fixed-point integers: energies, masses and the total width  *)
(* in GeV, vertex partial widths in MeV, cross sections in units of        *)
(* 0.05 nb.  Text (file lines, entry contents) is a sequence of one-       *)
(* character strings.  The alphabet of the inputs is the digits, "-", ","  *)
(* and lower-case letters: no whitespace, no ".", no exponent.             *)
(***************************************************************************)
EXTENDS Integers, Sequences, FiniteSets, TLC

(***************************************************************************)
(* Program constants, in model units.                                      *)
(***************************************************************************)
\* GAMMA_EE = 0.08391 GeV = 84 MeV
GAMMA_EE == 84
\* M_Z0 = 91.179 GeV, the initial guess of the mass
M_Z0 == 91
\* GAMMA_Z0 = 2.510 GeV, the initial guess of the width
GAMMA_Z0 == 3
\* 12 * pi * CONVERSION_FACTOR, for vertex widths in MeV and cross sections
\* in 0.05 nb: 12 * 3.14159 * 3.894e5 * 1e-6 * 20
CONVERSION_FACTOR == 294
\* custom_gamma=0.01 GeV = 10 MeV, the default guess of the third parameter
DEFAULT_GAMMA == 10

FILE_NAMES == <<"z_boson_data_1.csv", "z_boson_data_2.csv">>

(***************************************************************************)
(* Bounds of the model.                                                    *)
(***************************************************************************)
\* number of identical peak records of the uniform bulk
NEqual == 16
\* numbers of records of the two values of the mixed bulk
NMixA == 9
NMixB == 8
\* analyses (run_default, confirm_selection) a session is followed through
MaxAnalyses == 1
\* ids the flashcards are given (rows of the table at one time)
MaxId == 2
\* sessions in a row that skipped a card, counted up to
MaxSkipped == 3

(***************************************************************************)
(* Text.                                                                   *)
(***************************************************************************)
Digit == {"0", "1", "2", "3", "4", "5", "6", "7", "8", "9"}

DigitVal(c) ==
    CASE c = "0" -> 0 [] c = "1" -> 1 [] c = "2" -> 2 [] c = "3" -> 3
      [] c = "4" -> 4 [] c = "5" -> 5 [] c = "6" -> 6 [] c = "7" -> 7
      [] c = "8" -> 8 [] c = "9" -> 9

\* line.split(','): the fields between the commas (at least one field)
RECURSIVE Split(_)
Split(s) ==
    IF \A i \in 1..Len(s) : s[i] # ","
    THEN <<s>>
    ELSE LET k == CHOOSE i \in 1..Len(s) :
                      s[i] = "," /\ \A j \in 1..(i - 1) : s[j] # ","
         IN  <<SubSeq(s, 1, k - 1)>> \o Split(SubSeq(s, k + 1, Len(s)))

\* match('.*nan.*', line): the line holds the substring nan
MatchNan(s) ==
    \E i \in 1..(Len(s) - 2) : s[i] = "n" /\ s[i + 1] = "a" /\ s[i + 2] = "n"

Unsigned(s) == IF Len(s) > 0 /\ s[1] = "-" THEN Tail(s) ELSE s

\* the spellings of nan float() accepts (in any case of the letters)
NanSpellings == {<<"n", "a", "n">>, <<"N", "a", "N">>}

\* whether float(s) returns (TRUE) or raises ValueError (FALSE)
IsFloat(s) ==
    LET u == Unsigned(s)
    IN  \/ Len(u) > 0 /\ \A i \in 1..Len(u) : u[i] \in Digit
        \/ u \in NanSpellings

\* float('nan'), written as a value no numeral of the texts denotes; every
\* comparison with nan is False
NotANumber == -1000
IsNan(x) == x = NotANumber
Less(x, y) == ~IsNan(x) /\ ~IsNan(y) /\ x < y

RECURSIVE DecVal(_)
DecVal(u) ==
    IF u = <<>> THEN 0 ELSE 10 * DecVal(SubSeq(u, 1, Len(u) - 1)) + DigitVal(u[Len(u)])

\* float(s) of a decimal numeral or of nan
Float(s) ==
    IF Unsigned(s) \in NanSpellings THEN NotANumber
    ELSE IF Len(s) > 0 /\ s[1] = "-" THEN 0 - DecVal(Tail(s)) ELSE DecVal(s)

\* mutant: every text is accepted
AcceptAnything(value) == TRUE

\* check_numerical_input(value)
check_numerical_input(value) == IsFloat(value)

(***************************************************************************)
(* The texts of the runs: the lines of the files and the contents of the   *)
(* entries.  A text is named by a string; Chars gives its characters.      *)
(***************************************************************************)
Chars(s) ==
    CASE s = "10,5,1" -> <<"1", "0", ",", "5", ",", "1">>
      [] s = "not,numeric,data" -> <<"n", "o", "t", ",", "n", "u", "m", "e", "r", "i", "c", ",", "d", "a", "t", "a">>
      [] s = "5,-1,1" -> <<"5", ",", "-", "1", ",", "1">>
      [] s = "5,5,0" -> <<"5", ",", "5", ",", "0">>
      [] s = "1,2" -> <<"1", ",", "2">>
      [] s = "1,2,3,4" -> <<"1", ",", "2", ",", "3", ",", "4">>
      [] s = "1,nan,1" -> <<"1", ",", "n", "a", "n", ",", "1">>
      [] s = "NaN,5,1" -> <<"N", "a", "N", ",", "5", ",", "1">>
      [] s = "" -> <<>>
      [] s = "91,27,1" -> <<"9", "1", ",", "2", "7", ",", "1">>
      [] s = "91,28,1" -> <<"9", "1", ",", "2", "8", ",", "1">>
      [] s = "91,90,1" -> <<"9", "1", ",", "9", "0", ",", "1">>
      [] s = "91,0,1" -> <<"9", "1", ",", "0", ",", "1">>
      [] s = "95,3,1" -> <<"9", "5", ",", "3", ",", "1">>
      [] s = "20" -> <<"2", "0">>
      [] s = "abc" -> <<"a", "b", "c">>

(***************************************************************************)
(* read_data.                                                              *)
(***************************************************************************)
\* One line of a file: "keep" with the parsed entries, "skip" (continue, or
\* the ValueError of float() passed over), or "IndexError" (line[2] of a
\* line of fewer than three numeric fields), which no handler of read_data
\* catches.
ParseLine(line) ==
    IF MatchNan(line) THEN [kind |-> "skip", entry |-> <<>>]
    ELSE LET fields == Split(line)
         IN  IF \E i \in 1..Len(fields) : ~IsFloat(fields[i])
             THEN [kind |-> "skip", entry |-> <<>>]
             ELSE LET v == [i \in 1..Len(fields) |-> Float(fields[i])]
                  IN  IF Len(v) < 3 THEN [kind |-> "IndexError", entry |-> v]
                      ELSE IF (Less(v[3], 0) \/ v[3] = 0) \/ Less(v[2], 0) \/ Less(v[1], 0)
                           THEN [kind |-> "skip", entry |-> <<>>]
                           ELSE [kind |-> "keep", entry |-> v]

\* the lines the files of the runs are made of
Lines == {"10,5,1", "not,numeric,data", "5,-1,1", "5,5,0", "1,2", "1,2,3,4",
          "1,nan,1", "NaN,5,1", "", "91,27,1", "91,28,1", "91,90,1", "91,0,1",
          "95,3,1"}

\* ParseLine of every line, evaluated once
ParsedLine == [l \in Lines |-> ParseLine(Chars(l))] @@ <<>>

\* the lines of one opened file, appended to output_array
RECURSIVE ReadLines(_, _)
ReadLines(lines, output_array) ==
    IF lines = <<>> THEN [status |-> "ok", output_array |-> output_array]
    ELSE LET r == ParsedLine[Head(lines)]
         IN  CASE r.kind = "IndexError" ->
                      [status |-> "IndexError", output_array |-> output_array]
               [] r.kind = "keep" ->
                      ReadLines(Tail(lines), Append(output_array, r.entry))
               [] OTHER -> ReadLines(Tail(lines), output_array)

\* output_array.sort(key=lambda l: l[0]): a stable sort on the energy, which
\* moves an entry to the left only past entries its key is less than
RECURSIVE InsertSorted(_, _)
InsertSorted(sorted, e) ==
    IF sorted = <<>> THEN <<e>>
    ELSE IF ~Less(e[1], sorted[Len(sorted)][1]) THEN Append(sorted, e)
    ELSE Append(InsertSorted(SubSeq(sorted, 1, Len(sorted) - 1), e), sorted[Len(sorted)])

RECURSIVE SortByEnergy(_)
SortByEnergy(a) ==
    IF a = <<>> THEN <<>>
    ELSE InsertSorted(SortByEnergy(SubSeq(a, 1, Len(a) - 1)), a[Len(a)])

\* A file of the file system: its lines, or why open() fails.
Absent == [open |-> "FileNotFoundError", lines |-> <<>>]
Denied == [open |-> "PermissionError", lines |-> <<>>]
FileOf(lines) == [open |-> "ok", lines |-> lines]

\* the loop over file_names
RECURSIVE ReadFiles(_, _, _, _)
ReadFiles(fsys, file_names, output_array, successful_file_imports) ==
    IF file_names = <<>>
    THEN [status |-> "ok", output_array |-> output_array,
          successful_file_imports |-> successful_file_imports]
    ELSE LET f == fsys[Head(file_names)]
         IN  CASE f.open = "FileNotFoundError" ->
                      ReadFiles(fsys, Tail(file_names), output_array,
                                successful_file_imports - 1)
               [] f.open = "PermissionError" ->
                      [status |-> "PermissionError", output_array |-> output_array,
                       successful_file_imports |-> successful_file_imports]
               [] OTHER ->
                      LET r == ReadLines(f.lines, output_array)
                      IN  IF r.status # "ok"
                          THEN [status |-> r.status, output_array |-> r.output_array,
                                successful_file_imports |-> successful_file_imports]
                          ELSE ReadFiles(fsys, Tail(file_names), r.output_array,
                                         successful_file_imports)

\* np.array(output_array) is a two-dimensional array when every entry has
\* the same length, and the one-dimensional empty array of []
Ragged(a) == \E i, j \in 1..Len(a) : Len(a[i]) # Len(a[j])

\* read_data(file_names): status "ok" with the sorted array and the message
\* <<successful_file_imports, len(file_names)>>, or the exception raised
read_data(fsys, file_names) ==
    LET r == ReadFiles(fsys, file_names, <<>>, Len(file_names))
    IN  [status |-> r.status,
         output_array |-> r.output_array,
         data |-> SortByEnergy(r.output_array),
         message |-> <<r.successful_file_imports, Len(file_names)>>]

(***************************************************************************)
(* Arithmetic on columns.                                                  *)
(***************************************************************************)
RECURSIVE SumSeq(_)
SumSeq(s) == IF s = <<>> THEN 0 ELSE Head(s) + SumSeq(Tail(s))

Abs(x) == IF x < 0 THEN 0 - x ELSE x

\* data[:, k] (k counted from 1)
Column(data, k) == [i \in 1..Len(data) |-> data[i][k]]

\* n^2 times the variance np.std(a)**2 of a column: n*sum(a^2) - sum(a)^2
ScaledVariance(a) ==
    Len(a) * SumSeq([i \in 1..Len(a) |-> a[i] * a[i]]) - SumSeq(a) * SumSeq(a)

\* np.average and np.std of a column, scaled: n, n*mean and n^2*sigma^2
Stats(a) == [n |-> Len(a), sum |-> SumSeq(a), var |-> ScaledVariance(a)]

\* the largest r with r*r <= x (x ** 0.5 in fixed point)
Sqrt(x) == CHOOSE r \in 0..x : r * r <= x /\ (r + 1) * (r + 1) > x

\* mutant: every entry is appended
PickAll(data, keep, want) == data

\* the entries of data at the indices i with keep[i] = want, in order (the
\* loops that append to new_data and to outliers)
RECURSIVE Pick(_, _, _)
Pick(data, keep, want) ==
    IF data = <<>> THEN <<>>
    ELSE LET rest == Pick(SubSeq(data, 1, Len(data) - 1),
                          SubSeq(keep, 1, Len(data) - 1), want)
         IN  IF keep[Len(data)] = want THEN Append(rest, data[Len(data)]) ELSE rest

(***************************************************************************)
(* cross_section: the Breit-Wigner expression, evaluated in fixed point    *)
(* (the quotient by the denominator first, so that no product overflows).  *)
(***************************************************************************)
cross_section(energy, m_z, gamma_z, gamma_vertex_1, gamma_vertex_2) ==
    (((CONVERSION_FACTOR * gamma_vertex_1 * gamma_vertex_2)
        \div ((energy * energy - m_z * m_z) * (energy * energy - m_z * m_z)
              + (gamma_z * m_z) * (gamma_z * m_z)))
      * (energy * energy)) \div (m_z * m_z)

\* The prediction at one energy as filter_data, chi_square and plot_fit
\* call func: by the length of popt and gamma_ee_unknown.
Predicted(energy, popt, gamma_ee_unknown) ==
    IF Len(popt) = 2
    THEN cross_section(energy, popt[1], popt[2], GAMMA_EE, GAMMA_EE)
    ELSE IF Len(popt) = 3 /\ gamma_ee_unknown
         THEN cross_section(energy, popt[1], popt[2], popt[3], popt[3])
         ELSE cross_section(energy, popt[1], popt[2], popt[3], GAMMA_EE)

(***************************************************************************)
(* initial_filter: an entry is kept when |mean - entry[1]| < 5*sigma,      *)
(* that is (sum - n*y)^2 < 25 * (n^2 * variance).                          *)
(***************************************************************************)
InitialKeep(st, entry) ==
    LET d == st.sum - st.n * entry[2]
    IN  d * d < 25 * st.var

initial_filter(data) ==
    LET st == Stats(Column(data, 2))
    IN  Pick(data, [i \in 1..Len(data) |-> InitialKeep(st, data[i])], TRUE)

(***************************************************************************)
(* filter_data: z_score = (deviation - mean)/sigma of the absolute         *)
(* deviations; an entry is kept when z_score < 4.  With sigma = 0 every    *)
(* z_score is 0/0 = nan and nan < 4 is False.                              *)
(***************************************************************************)
deviation_array(data, popt, gamma_ee_unknown) ==
    [i \in 1..Len(data) |->
        Abs(data[i][2] - Predicted(data[i][1], popt, gamma_ee_unknown))]

\* mutant: z_score <= 4
ZAtMost4(st, deviation) ==
    LET l == st.n * deviation - st.sum
    IN  st.var > 0 /\ (l < 0 \/ l * l <= 16 * st.var)

\* z_score < 4 for z_score = (deviation - mean)/sigma
ZBelow4(st, deviation) ==
    LET l == st.n * deviation - st.sum
    IN  st.var > 0 /\ (l < 0 \/ l * l < 16 * st.var)

\* mutant: the dropped entries stay in the retained dataset
filter_data_keeps_all(data, popt, gamma_ee_unknown) ==
    LET dev == deviation_array(data, popt, gamma_ee_unknown)
        st == Stats(dev)
        keep == [i \in 1..Len(data) |-> ZBelow4(st, dev[i])]
    IN  [new_data |-> data, outliers |-> Pick(data, keep, FALSE)]

filter_data(data, popt, gamma_ee_unknown) ==
    LET dev == deviation_array(data, popt, gamma_ee_unknown)
        st == Stats(dev)
        keep == [i \in 1..Len(data) |-> ZBelow4(st, dev[i])]
    IN  [new_data |-> Pick(data, keep, TRUE), outliers |-> Pick(data, keep, FALSE)]

(***************************************************************************)
(* chi_square and the reduced chi-square of run_analysis.  A numpy float   *)
(* divided by 0 is inf (nan for 0/0) with a warning, not an exception.     *)
(***************************************************************************)
chi_square(data, popt, gamma_ee_unknown) ==
    SumSeq([i \in 1..Len(data) |->
        LET r == data[i][2] - Predicted(data[i][1], popt, gamma_ee_unknown)
        IN  (r * r) \div (data[i][3] * data[i][3])])

Num(v) == [kind |-> "num", v |-> v]
Inf == [kind |-> "inf", v |-> 0]
NaN == [kind |-> "nan", v |-> 0]

Divide(chi, dof) ==
    IF dof > 0 THEN Num(chi \div dof)
    ELSE IF dof < 0 THEN Num(0 - (chi \div (0 - dof)))
    ELSE IF chi = 0 THEN NaN ELSE Inf

\* pcov[i, i] ** 0.5
Root(c) == IF c.kind = "num" THEN (IF c.v >= 0 THEN Num(Sqrt(c.v)) ELSE NaN) ELSE c

(***************************************************************************)
(* collect_results: the values of the summary (the text formatting is not  *)
(* modelled).                                                              *)
(***************************************************************************)
collect_results(popt, pcov, chi_squared_red, gamma_ee_unknown) ==
    [m_z |-> popt[1], sigma_m_z |-> Root(pcov[1]),
     gamma_z |-> popt[2], sigma_gamma_z |-> Root(pcov[2]),
     third |-> IF Len(popt) = 3 /\ gamma_ee_unknown THEN "electron-positron"
               ELSE IF Len(popt) = 3 THEN "new decay" ELSE "none",
     gamma_3 |-> IF Len(popt) = 3 THEN popt[3] ELSE 0,
     sigma_gamma_3 |-> IF Len(popt) = 3 THEN Root(pcov[3]) ELSE Num(0),
     chi_squared_red |-> chi_squared_red]

(***************************************************************************)
(* The solver so.curve_fit, an external routine: it raises, or returns     *)
(* some parameter vector of the length of p0 with a covariance matrix.     *)
(***************************************************************************)
\* the parameter vectors the solver may return
Candidates(n) ==
    IF n = 2 THEN {<<M_Z0, GAMMA_Z0>>, <<M_Z0, GAMMA_Z0 - 1>>}
    ELSE {<<M_Z0, GAMMA_Z0, GAMMA_EE>>, <<M_Z0, GAMMA_Z0, DEFAULT_GAMMA>>}

\* the diagonal of pcov: finite variances, or inf in every entry (scipy fills
\* pcov with inf when it cannot estimate it, always so when the number of
\* points equals the number of parameters)
FiniteCov(n) == [i \in 1..n |-> Num(i * i)]
InfCov(n) == [i \in 1..n |-> Inf]
Covariances(m, n) == IF m = n THEN {InfCov(n)} ELSE {FiniteCov(n), InfCov(n)}

\* mutant: the new-decay branch binds the third parameter to both vertices
FitBranchBothFree(different_decay, gamma_ee_unknown, custom_gamma) ==
    IF different_decay \/ gamma_ee_unknown
    THEN [p0 |-> <<M_Z0, GAMMA_Z0, custom_gamma>>,
          gamma_vertex_1 |-> "c", gamma_vertex_2 |-> "c",
          filter_flag |-> gamma_ee_unknown]
    ELSE [p0 |-> <<M_Z0, GAMMA_Z0>>,
          gamma_vertex_1 |-> "GAMMA_EE", gamma_vertex_2 |-> "GAMMA_EE",
          filter_flag |-> FALSE]

\* The three branches of fit_to_data: the initial guess p0, the vertex
\* widths the fitted lambda passes to func ("c" is the third parameter) and
\* the gamma_ee_unknown argument of the branch's call of filter_data.
FitBranch(different_decay, gamma_ee_unknown, custom_gamma) ==
    IF different_decay
    THEN [p0 |-> <<M_Z0, GAMMA_Z0, custom_gamma>>,
          gamma_vertex_1 |-> "c", gamma_vertex_2 |-> "GAMMA_EE",
          filter_flag |-> FALSE]
    ELSE IF gamma_ee_unknown
         THEN [p0 |-> <<M_Z0, GAMMA_Z0, custom_gamma>>,
               gamma_vertex_1 |-> "c", gamma_vertex_2 |-> "c",
               filter_flag |-> gamma_ee_unknown]
         ELSE [p0 |-> <<M_Z0, GAMMA_Z0>>,
               gamma_vertex_1 |-> "GAMMA_EE", gamma_vertex_2 |-> "GAMMA_EE",
               filter_flag |-> FALSE]

(***************************************************************************)
(* The files of the runs.                                                  *)
(***************************************************************************)
LineKinds == Lines \ {"91,27,1", "91,28,1"}

\* what the user may type into an entry
GuessTexts == {"", "20"}

Rep(n, x) == [i \in 1..n |-> x]
EqualBulk == Rep(NEqual, "91,27,1")
MixedBulk == Rep(NMixA, "91,27,1") \o Rep(NMixB, "91,28,1")
\* the file of the ingestion example
ExampleFile == <<"10,5,1", "not,numeric,data", "5,-1,1", "5,5,0">>

\* short files: every kind of line alone and a few mixtures
ShortFiles == {<<>>} \cup {<<l>> : l \in LineKinds}
                \cup {ExampleFile, <<"10,5,1", "1,2,3,4">>, <<"95,3,1", "1,2", "10,5,1">>,
                      <<"95,3,1", "10,5,1">>, <<"10,5,1", "91,27,1", "95,3,1">>,
                      <<"95,3,1", "NaN,5,1", "10,5,1">>,
                      <<"91,27,1", "95,3,1", "95,3,1">>}
\* long files: a bulk of peak records, alone or with one more line
LongFiles == {MixedBulk, MixedBulk \o <<"91,90,1">>, MixedBulk \o <<"91,0,1">>,
              EqualBulk \o <<"91,90,1">>, MixedBulk \o <<"1,2,3,4">>}

(***************************************************************************)
(* The files on disk.                                                      *)
(***************************************************************************)
FileNames == {"z_boson_data_1.csv", "z_boson_data_2.csv", "user_1.csv", "user_2.csv"}

Disk(z1, z2, u1) ==
    [n \in FileNames |->
        CASE n = "z_boson_data_1.csv" -> z1
          [] n = "z_boson_data_2.csv" -> z2
          [] n = "user_1.csv" -> u1
          [] OTHER -> Absent]

FileSystems ==
    {Disk(z1, Absent, FileOf(<<"95,3,1", "10,5,1">>)) :
        z1 \in {Absent, Denied} \cup {FileOf(b) : b \in ShortFiles}}
    \cup {Disk(z1, z2, u1) :
            z1 \in {FileOf(b) : b \in LongFiles},
            z2 \in {Absent, FileOf(EqualBulk)},
            u1 \in {FileOf(MixedBulk \o <<"91,0,1">>)}}
    \cup {Disk(FileOf(<<"95,3,1">>), z2, Absent) :
            z2 \in {Denied, FileOf(<<"10,5,1", "91,27,1">>)}}

\* what askopenfilenames() may return
FileSelections == {<<>>, <<"user_1.csv", "user_2.csv">>}

(***************************************************************************)
(* State.                                                                  *)
(***************************************************************************)
VARIABLES
    fs,               \* the files on disk
    sel_1, file_choice, input_files, files, self_data,
    sel_2, gamma_pp, gamma_pp_input,
    sel_3, gamma_ee, gamma_ee_input,
    messages,         \* the messages displayed by the latest handler
    output,           \* the text of the output label (<<>>: none)
    pc,               \* where the running handler stands ("idle": none runs)
    handler,          \* the handler that started the latest analysis or import
    err,              \* the exception that ended the latest handler ("": none)
    analyses,         \* the analyses started so far
    data, different_decay, gamma_ee_unknown, custom_gamma,
    popt, pcov, outliers, chi_squared_red, message,
    calls,            \* the calls made by this run_analysis
    fit,              \* the latest call of the solver
    resid             \* the latest call of filter_data

\* the flashcard program (leitner_flashcards.py), a process of its own
VARIABLES
    stored,                 \* the committed rows of table flashcard: id -> row
    session,                \* the rows as the session holds them (pending changes included)
    last_flashcard_id,      \* of main
    added_flashcard_id,     \* last_flashcard_id of add_flashcards, a copy
    flashcards, position, not_studied_flashcard,   \* of study_flashcards
    menu,                   \* where the program stands
    skipped                 \* id -> the sessions in a row that skipped the card

flash == <<stored, session, last_flashcard_id, added_flashcard_id, flashcards,
           position, not_studied_flashcard, menu, skipped>>

gui == <<sel_1, file_choice, input_files, files, self_data, sel_2, gamma_pp,
         gamma_pp_input, sel_3, gamma_ee, gamma_ee_input>>
locals == <<data, different_decay, gamma_ee_unknown, custom_gamma, popt, pcov,
            outliers, chi_squared_red, message>>
ghost == <<calls, fit, resid>>
window == <<fs, gui, messages, output, pc, handler, err, analyses, locals, ghost>>
vars == <<window, flash>>

\* no row
NoRows == <<>>

\* the flashcard program is not running and its table is empty
FlashOff ==
    /\ stored = NoRows /\ session = NoRows
    /\ last_flashcard_id = 0 /\ added_flashcard_id = 0
    /\ flashcards = <<>> /\ position = 0 /\ not_studied_flashcard = 0
    /\ menu = "off" /\ skipped = NoRows

Msg(text) == [text |-> text, k |-> 0, n |-> 0]
ImportMsg(m) == [text |-> "files have been imported successfully.", k |-> m[1], n |-> m[2]]

NoCalls == [initial_filter |-> 0, curve_fit |-> 0, filter_data |-> 0]
NoFit == [p0 |-> <<>>, gamma_vertex_1 |-> "", gamma_vertex_2 |-> "", n |-> 0]
NoResid == [popt |-> <<>>, gamma_ee_unknown |-> FALSE, n |-> 0, kept |-> 0]
NoMessage == collect_results(<<0, 0>>, <<Num(0), Num(0)>>, Num(0), FALSE)

\* no frame of run_analysis is live
Cleared ==
    /\ data' = <<>> /\ different_decay' = FALSE /\ gamma_ee_unknown' = FALSE
    /\ custom_gamma' = 0 /\ popt' = <<>> /\ pcov' = <<>> /\ outliers' = <<>>
    /\ chi_squared_red' = Num(0) /\ message' = NoMessage
    /\ calls' = NoCalls /\ fit' = NoFit /\ resid' = NoResid

Init ==
    /\ FlashOff
    /\ fs \in FileSystems
    /\ sel_1 = "Use default files" /\ file_choice = "" /\ input_files = "disabled"
    /\ files = <<>> /\ self_data = <<>>
    /\ sel_2 = FALSE /\ gamma_pp = "" /\ gamma_pp_input = "disabled"
    /\ sel_3 = FALSE /\ gamma_ee = "" /\ gamma_ee_input = "disabled"
    /\ messages = <<Msg("The program has started.")>>
    /\ output = <<>>
    /\ pc = "idle" /\ handler = "" /\ err = "" /\ analyses = 0
    /\ data = <<>> /\ different_decay = FALSE /\ gamma_ee_unknown = FALSE
    /\ custom_gamma = 0 /\ popt = <<>> /\ pcov = <<>> /\ outliers = <<>>
    /\ chi_squared_red = Num(0) /\ message = NoMessage
    /\ calls = NoCalls /\ fit = NoFit /\ resid = NoResid

(***************************************************************************)
(* The handlers of the window.  A handler runs to its end before the next  *)
(* event is served; an exception raised in a handler ends that handler and *)
(* the window goes on serving events.                                      *)
(***************************************************************************)
\* The results read_data may give: np.array of entries of unequal lengths
\* raises ValueError or builds a one-dimensional array of lists, by the
\* version of numpy.
\* read_data of every file system and every list of names a handler passes,
\* evaluated once
ReadTable ==
    [p \in FileSystems \X (FileSelections \cup {FILE_NAMES}) |-> read_data(p[1], p[2])]
        @@ <<>>

\* np.array(output_array) of a read that ended: of unequal entries, either outcome
ArrayOutcomes(r) ==
    IF r.status = "ok" /\ Ragged(r.output_array)
    THEN {r, [r EXCEPT !.status = "ValueError"]}
    ELSE {r}

ReadDataOutcomes(file_names) == ArrayOutcomes(ReadTable[<<fs, file_names>>])

\* the handler ends with exception e
Raise(e) == pc' = "idle" /\ err' = e /\ Cleared

\* run_analysis(data, dd, geu, guess) is entered
RunAnalysis(d, dd, geu, guess) ==
    /\ pc' = "initial_filter"
    /\ data' = d
    /\ different_decay' = dd /\ gamma_ee_unknown' = geu /\ custom_gamma' = guess
    /\ popt' = <<>> /\ pcov' = <<>> /\ outliers' = <<>>
    /\ chi_squared_red' = Num(0) /\ message' = NoMessage
    /\ calls' = NoCalls /\ fit' = NoFit /\ resid' = NoResid

\* display 'Running the script...', read_data(names), display its message,
\* enter run_analysis
ReadAndRun(names, dd, geu, guess) ==
    \E r \in ReadDataOutcomes(names) :
        IF r.status # "ok"
        THEN /\ messages' = <<Msg("Running the script...")>>
             /\ Raise(r.status)
             /\ UNCHANGED self_data
        ELSE /\ messages' = <<Msg("Running the script..."), ImportMsg(r.message)>>
             /\ self_data' = r.data
             /\ err' = ""
             /\ RunAnalysis(r.data, dd, geu, guess)

run_default ==
    /\ pc = "idle" /\ analyses < MaxAnalyses
    /\ handler' = "run_default" /\ analyses' = analyses + 1
    /\ ReadAndRun(FILE_NAMES, FALSE, FALSE, DEFAULT_GAMMA)
    /\ UNCHANGED <<flash, fs, sel_1, file_choice, input_files, files, sel_2, gamma_pp,
                   gamma_pp_input, sel_3, gamma_ee, gamma_ee_input, output>>

\* the branch of confirm_selection: which entry is checked and which files
\* are read ("none": neither branch is taken)
ConfirmBranch ==
    IF sel_2 THEN [taken |-> TRUE, guess |-> gamma_pp, names |-> files]
    ELSE IF sel_3
         THEN [taken |-> TRUE, guess |-> gamma_ee,
               names |-> IF sel_1 = "Use default files" THEN FILE_NAMES ELSE files]
         ELSE [taken |-> FALSE, guess |-> "", names |-> <<>>]

confirm_selection ==
    /\ pc = "idle"
    /\ handler' = "confirm_selection"
    /\ LET b == ConfirmBranch
       IN  IF b.taken
           THEN IF check_numerical_input(Chars(b.guess))
                THEN /\ analyses < MaxAnalyses
                     /\ analyses' = analyses + 1
                     /\ ReadAndRun(b.names, sel_2, sel_3, Float(Chars(b.guess)))
                ELSE /\ messages' = <<Msg("Invalid input provided.")>>
                     /\ pc' = "idle" /\ err' = "" /\ Cleared
                     /\ UNCHANGED <<self_data, analyses>>
           ELSE /\ pc' = "idle" /\ err' = "" /\ Cleared
                /\ UNCHANGED <<messages, self_data, analyses>>
    /\ UNCHANGED <<flash, fs, sel_1, file_choice, input_files, files, sel_2, gamma_pp,
                   gamma_pp_input, sel_3, gamma_ee, gamma_ee_input, output>>

\* get_files: the IndexError of read_data is caught here
get_files ==
    /\ pc = "idle" /\ input_files = "normal"
    /\ handler' = "get_files"
    /\ \E selection \in FileSelections :
         /\ files' = selection
         /\ \E r \in ReadDataOutcomes(selection) :
              CASE r.status = "ok" ->
                     /\ self_data' = r.data
                     /\ messages' = <<ImportMsg(r.message)>>
                     /\ err' = ""
                [] r.status = "IndexError" ->
                     /\ messages' = <<Msg("The selected files are not compatible with the script.")>>
                     /\ err' = ""
                     /\ UNCHANGED self_data
                [] OTHER ->
                     /\ err' = r.status
                     /\ UNCHANGED <<messages, self_data>>
    /\ UNCHANGED <<flash, fs, sel_1, file_choice, input_files, sel_2, gamma_pp,
                   gamma_pp_input, sel_3, gamma_ee, gamma_ee_input, output, pc,
                   analyses, locals, ghost>>

\* mutant: choosing the default files leaves sel_2 and its entry alone
allow_file_input_keeps_sel_2 ==
    /\ pc = "idle"
    /\ \E choice \in {"Use default files", "Choose different files"} :
         /\ file_choice' = choice
         /\ input_files' = IF choice = "Choose different files"
                           THEN "normal" ELSE "disabled"
    /\ UNCHANGED <<flash, fs, sel_1, files, self_data, sel_2, gamma_pp, gamma_pp_input,
                   sel_3, gamma_ee, gamma_ee_input, messages, output, pc, handler,
                   err, analyses, locals, ghost>>

\* the user picks an option of the combobox: allow_file_input
allow_file_input ==
    /\ pc = "idle"
    /\ \E choice \in {"Use default files", "Choose different files"} :
         /\ file_choice' = choice
         /\ IF choice = "Choose different files"
            THEN /\ input_files' = "normal"
                 /\ UNCHANGED <<sel_2, gamma_pp_input>>
            ELSE /\ input_files' = "disabled"
                 /\ sel_2' = FALSE
                 /\ gamma_pp_input' = "disabled"
    /\ UNCHANGED <<flash, fs, sel_1, files, self_data, gamma_pp, sel_3, gamma_ee,
                   gamma_ee_input, messages, output, pc, handler, err, analyses,
                   locals, ghost>>

\* mutant: selecting the new decay leaves sel_3 and its entry alone
allow_gamma_pp_keeps_sel_3 ==
    /\ pc = "idle"
    /\ \E choice \in BOOLEAN :
         /\ sel_2' = choice
         /\ IF choice
            THEN /\ gamma_pp_input' = "normal"
                 /\ file_choice' = "Choose different files"
                 /\ input_files' = "normal"
            ELSE /\ gamma_pp_input' = "disabled"
                 /\ UNCHANGED <<file_choice, input_files>>
    /\ UNCHANGED <<flash, fs, sel_1, files, self_data, gamma_pp, sel_3, gamma_ee,
                   gamma_ee_input, messages, output, pc, handler, err, analyses,
                   locals, ghost>>

\* the user clicks one of the two radio buttons of sel_2: allow_gamma_pp
allow_gamma_pp ==
    /\ pc = "idle"
    /\ \E choice \in BOOLEAN :
         /\ sel_2' = choice
         /\ IF choice
            THEN /\ gamma_pp_input' = "normal"
                 /\ sel_3' = FALSE
                 /\ gamma_ee_input' = "disabled"
                 /\ file_choice' = "Choose different files"
                 /\ input_files' = "normal"
            ELSE /\ gamma_pp_input' = "disabled"
                 /\ UNCHANGED <<sel_3, gamma_ee_input, file_choice, input_files>>
    /\ UNCHANGED <<flash, fs, sel_1, files, self_data, gamma_pp, gamma_ee,
                   messages, output, pc, handler, err, analyses, locals, ghost>>

\* the user clicks one of the two radio buttons of sel_3: allow_gamma_ee
allow_gamma_ee ==
    /\ pc = "idle"
    /\ \E choice \in BOOLEAN :
         IF choice /\ ~sel_2
         THEN /\ sel_3' = choice
              /\ gamma_ee_input' = "normal"
         ELSE /\ gamma_ee_input' = "disabled"
              /\ sel_3' = FALSE
    /\ UNCHANGED <<flash, fs, sel_1, file_choice, input_files, files, self_data, sel_2,
                   gamma_pp, gamma_pp_input, gamma_ee, messages, output, pc,
                   handler, err, analyses, locals, ghost>>

\* the user types into an enabled entry
type_gamma_pp ==
    /\ pc = "idle" /\ gamma_pp_input = "normal"
    /\ \E text \in GuessTexts : gamma_pp' = text
    /\ UNCHANGED <<flash, fs, sel_1, file_choice, input_files, files, self_data, sel_2,
                   gamma_pp_input, sel_3, gamma_ee, gamma_ee_input, messages,
                   output, pc, handler, err, analyses, locals, ghost>>

type_gamma_ee ==
    /\ pc = "idle" /\ gamma_ee_input = "normal"
    /\ \E text \in GuessTexts : gamma_ee' = text
    /\ UNCHANGED <<flash, fs, sel_1, file_choice, input_files, files, self_data, sel_2,
                   gamma_pp, gamma_pp_input, sel_3, gamma_ee_input, messages,
                   output, pc, handler, err, analyses, locals, ghost>>

\* exit_program: sys.exit(0) ends the process and the window with it
exit_program ==
    /\ pc = "idle"
    /\ pc' = "exited"
    /\ messages' = <<Msg("The program is closing...")>>
    /\ sel_1' = "" /\ file_choice' = "" /\ input_files' = "disabled"
    /\ files' = <<>> /\ self_data' = <<>>
    /\ sel_2' = FALSE /\ gamma_pp' = "" /\ gamma_pp_input' = "disabled"
    /\ sel_3' = FALSE /\ gamma_ee' = "" /\ gamma_ee_input' = "disabled"
    /\ output' = <<>> /\ handler' = "exit_program" /\ err' = ""
    /\ UNCHANGED <<flash, fs, analyses, locals, ghost>>

(***************************************************************************)
(* The steps of run_analysis.                                              *)
(***************************************************************************)
\* mutant: the global pass edits the array of the caller in place
initial_filter_in_place ==
    /\ pc = "initial_filter"
    /\ IF data = <<>> \/ Ragged(data)
       THEN /\ Raise("IndexError")
            /\ UNCHANGED self_data
       ELSE /\ data' = initial_filter(data)
            /\ self_data' = initial_filter(data)
            /\ calls' = [calls EXCEPT !.initial_filter = @ + 1]
            /\ pc' = "curve_fit"
            /\ UNCHANGED <<err, different_decay, gamma_ee_unknown, custom_gamma,
                           popt, pcov, outliers, chi_squared_red, message, fit, resid>>
    /\ UNCHANGED <<flash, fs, sel_1, file_choice, input_files, files, sel_2, gamma_pp,
                   gamma_pp_input, sel_3, gamma_ee, gamma_ee_input, messages,
                   output, handler, analyses>>

\* data = initial_filter(data); data[:, 1] of a one-dimensional array (the
\* empty array, an array of lists) raises IndexError
initial_filter_step ==
    /\ pc = "initial_filter"
    /\ IF data = <<>> \/ Ragged(data)
       THEN /\ Raise("IndexError")
       ELSE /\ data' = initial_filter(data)
            /\ calls' = [calls EXCEPT !.initial_filter = @ + 1]
            /\ pc' = "curve_fit"
            /\ UNCHANGED <<err, different_decay, gamma_ee_unknown, custom_gamma,
                           popt, pcov, outliers, chi_squared_red, message, fit, resid>>
    /\ UNCHANGED <<flash, fs, gui, messages, output, handler, analyses>>

\* popt, pcov = so.curve_fit(...): data[:, 0] of the empty array raises
\* IndexError before the call; the solver raises ValueError on a nan in its
\* arrays (check_finite), TypeError on fewer points than parameters and
\* RuntimeError when it finds no optimum
curve_fit_step ==
    /\ pc = "curve_fit"
    /\ LET b == FitBranch(different_decay, gamma_ee_unknown, custom_gamma)
       IN  IF data = <<>>
           THEN Raise("IndexError")
           ELSE IF \E i \in 1..Len(data) : \E k \in 1..3 : IsNan(data[i][k])
                THEN Raise("ValueError")
           ELSE IF Len(data) < Len(b.p0)
                THEN Raise("TypeError")
                ELSE \/ Raise("RuntimeError")
                     \/ /\ popt' \in Candidates(Len(b.p0))
                        /\ pcov' \in Covariances(Len(data), Len(b.p0))
                        /\ fit' = [p0 |-> b.p0, gamma_vertex_1 |-> b.gamma_vertex_1,
                                   gamma_vertex_2 |-> b.gamma_vertex_2, n |-> Len(data)]
                        /\ calls' = [calls EXCEPT !.curve_fit = @ + 1]
                        /\ pc' = "filter_data"
                        /\ UNCHANGED <<err, data, different_decay, gamma_ee_unknown,
                                       custom_gamma, outliers, chi_squared_red,
                                       message, resid>>
    /\ UNCHANGED <<flash, fs, gui, messages, output, handler, analyses>>

\* mutants of the loop test: inverted, and a loop body that runs once
LoopAgainInverted(o) == o = <<>>
LoopAgainNever(o) == FALSE

\* the test of `while outliers:`
LoopAgain(o) == o # <<>>

\* data, outliers = filter_data(data, func, popt[, gamma_ee_unknown]) and the
\* test of the while loop
filter_data_step ==
    /\ pc = "filter_data"
    /\ LET b == FitBranch(different_decay, gamma_ee_unknown, custom_gamma)
           r == filter_data(data, popt, b.filter_flag)
       IN  /\ data' = r.new_data
           /\ outliers' = r.outliers
           /\ resid' = [popt |-> popt, gamma_ee_unknown |-> b.filter_flag,
                        n |-> Len(data), kept |-> Len(r.new_data)]
           /\ pc' = IF LoopAgain(r.outliers) THEN "curve_fit" ELSE "chi_square"
    /\ calls' = [calls EXCEPT !.filter_data = @ + 1]
    /\ UNCHANGED <<flash, fs, gui, messages, output, handler, err, analyses, different_decay,
                   gamma_ee_unknown, custom_gamma, popt, pcov, chi_squared_red,
                   message, fit>>

\* chi_squared_red = chi_square(data, popt, gamma_ee_unknown)/(len(data) - len(popt))
chi_square_step ==
    /\ pc = "chi_square"
    /\ chi_squared_red' = Divide(chi_square(data, popt, gamma_ee_unknown),
                                 Len(data) - Len(popt))
    /\ pc' = "collect_results"
    /\ UNCHANGED <<flash, fs, gui, messages, output, handler, err, analyses, data,
                   different_decay, gamma_ee_unknown, custom_gamma, popt, pcov,
                   outliers, message, ghost>>

\* message = collect_results(popt, pcov, chi_squared_red, gamma_ee_unknown)
collect_results_step ==
    /\ pc = "collect_results"
    /\ message' = collect_results(popt, pcov, chi_squared_red, gamma_ee_unknown)
    /\ pc' = "plot_fit"
    /\ UNCHANGED <<flash, fs, gui, messages, output, handler, err, analyses, data,
                   different_decay, gamma_ee_unknown, custom_gamma, popt, pcov,
                   outliers, chi_squared_red, ghost>>

\* plot_fit, plot_parameter_surface (the figures are not modelled), return
\* message, and show_output(output) of the handler
show_output ==
    /\ pc = "plot_fit"
    /\ messages' = Append(messages,
           Msg("The plots have been saved in the same directory as the script."))
    /\ output' = <<message>>
    /\ pc' = "idle"
    /\ Cleared
    /\ UNCHANGED <<flash, fs, gui, handler, err, analyses>>

Next ==
    \/ run_default
    \/ confirm_selection
    \/ get_files
    \/ allow_file_input
    \/ allow_gamma_pp
    \/ allow_gamma_ee
    \/ type_gamma_pp
    \/ type_gamma_ee
    \/ exit_program
    \/ initial_filter_step
    \/ curve_fit_step
    \/ filter_data_step
    \/ chi_square_step
    \/ collect_results_step
    \/ show_output

Spec == Init /\ [][Next]_vars

(***************************************************************************)
(* run_analysis called on its own: on any dataset read_data returns and    *)
(* with any values of its two flags.                                       *)
(***************************************************************************)
\* return message
run_analysis_return ==
    /\ pc = "plot_fit"
    /\ pc' = "returned"
    /\ UNCHANGED <<flash, fs, gui, messages, output, handler, err, analyses, locals, ghost>>

EngineInit ==
    /\ FlashOff
    /\ fs \in FileSystems
    /\ sel_1 = "Use default files" /\ file_choice = "" /\ input_files = "disabled"
    /\ files = <<>>
    /\ sel_2 = FALSE /\ gamma_pp = "" /\ gamma_pp_input = "disabled"
    /\ sel_3 = FALSE /\ gamma_ee = "" /\ gamma_ee_input = "disabled"
    /\ messages = <<>> /\ output = <<>>
    /\ pc = "initial_filter" /\ handler = "" /\ err = "" /\ analyses = 0
    /\ \E r \in ReadDataOutcomes(FILE_NAMES) :
         /\ r.status = "ok"
         /\ self_data = r.data
         /\ data = r.data
    /\ different_decay \in BOOLEAN /\ gamma_ee_unknown \in BOOLEAN
    /\ custom_gamma \in {DEFAULT_GAMMA, Float(Chars("20"))}
    /\ popt = <<>> /\ pcov = <<>> /\ outliers = <<>>
    /\ chi_squared_red = Num(0) /\ message = NoMessage
    /\ calls = NoCalls /\ fit = NoFit /\ resid = NoResid

EngineNext ==
    \/ initial_filter_step
    \/ curve_fit_step
    \/ filter_data_step
    \/ chi_square_step
    \/ collect_results_step
    \/ run_analysis_return

\* A call that has started runs on until it returns or raises: weak fairness
\* of EngineNext, WF_vars(EngineNext), written out with its enabling
\* condition (a step is possible exactly while the call has not ended).
Ended == pc \in {"idle", "returned"}
EngineFairness == []<>Ended \/ []<><<EngineNext>>_vars
EngineSpec == EngineInit /\ [][EngineNext]_vars /\ EngineFairness

(***************************************************************************)
(* The flashcard program.  The table flashcard is kept by SQLite behind a  *)
(* session: a change of a row is held by the session until the next        *)
(* commit, which writes every change held; a process that ends leaves the  *)
(* table as last committed.  A query gives the rows by ascending id.       *)
(***************************************************************************)
\* Flashcard(id, question, answer, box=1, sessions_since_last_studied=0); the
\* question stands for the two texts
NewFlashcard(question) ==
    [question |-> question, box |-> 1, sessions_since_last_studied |-> 0]

\* what the user may type as a question
Questions == {"question", "new question"}

Ids(rows) == DOMAIN rows
Without(rows, id) == [i \in Ids(rows) \ {id} |-> rows[i]]
With(rows, id, row) == [i \in Ids(rows) \cup {id} |-> IF i = id THEN row ELSE rows[i]]

\* the largest id of the rows (flashcards[-1].id), 0 for none (IndexError)
LastId(rows) ==
    IF Ids(rows) = {} THEN 0
    ELSE CHOOSE i \in Ids(rows) : \A j \in Ids(rows) : j <= i

\* session.query(Flashcard).all(): the ids of the rows, ascending
RECURSIVE Ascend(_)
Ascend(ids) ==
    IF ids = {} THEN <<>>
    ELSE LET m == CHOOSE i \in ids : \A j \in ids : j <= i
         IN  Append(Ascend(ids \ {m}), m)

\* mutant: a correct answer always moves the card up
check_whether_learned_moves_up(rows, id, user_choice) ==
    IF user_choice = "y"
    THEN With(rows, id, [rows[id] EXCEPT !.box = @ + 1])
    ELSE With(rows, id, [rows[id] EXCEPT !.box = 1])

\* check_whether_learned(session, current_flashcard) with a choice of "y" or
\* "n" (any other choice asks again): the rows after its commit
check_whether_learned(rows, id, user_choice) ==
    IF user_choice = "y"
    THEN IF rows[id].box >= 3
         THEN Without(rows, id)
         ELSE With(rows, id, [rows[id] EXCEPT !.box = @ + 1])
    ELSE With(rows, id, [rows[id] EXCEPT !.box = 1])

\* current_flashcard.sessions_since_last_studied = 0 (on a deleted card the
\* assignment changes no row)
Studied(rows, id) ==
    IF id \in Ids(rows)
    THEN With(rows, id, [rows[id] EXCEPT !.sessions_since_last_studied = 0])
    ELSE rows

\* one more session has skipped the card (counted up to MaxSkipped)
SkippedAgain(id) ==
    [skipped EXCEPT ![id] = IF @ < MaxSkipped THEN @ + 1 ELSE @]

\* the loop of study_flashcards goes to the next card, or ends
NextCard ==
    IF position < Len(flashcards)
    THEN position' = position + 1 /\ menu' = "study"
    ELSE position' = 0 /\ menu' = "main"

\* main(): load_database and the id of the last row
main ==
    /\ menu \in {"off", "exited", "crashed"}
    /\ menu' = "main"
    /\ session' = stored
    /\ last_flashcard_id' = LastId(stored)
    /\ added_flashcard_id' = 0
    /\ flashcards' = <<>> /\ position' = 0 /\ not_studied_flashcard' = 0
    /\ UNCHANGED <<window, stored, skipped>>

\* choice 1 of the main menu: add_flashcards(session, last_flashcard_id)
main_add_flashcards ==
    /\ menu = "main"
    /\ menu' = "add"
    /\ added_flashcard_id' = last_flashcard_id
    /\ UNCHANGED <<window, stored, session, last_flashcard_id, flashcards, position,
                   not_studied_flashcard, skipped>>

\* choice 1 of add_flashcards: a row with the next id is added and committed;
\* a row of that id in the table makes the commit raise, which ends the process
add_flashcard ==
    /\ menu = "add" /\ added_flashcard_id < MaxId
    /\ added_flashcard_id' = added_flashcard_id + 1
    /\ \E question \in Questions :
         IF added_flashcard_id + 1 \in Ids(session)
         THEN /\ menu' = "crashed"
              /\ UNCHANGED <<stored, session, skipped>>
         ELSE /\ session' = With(session, added_flashcard_id + 1, NewFlashcard(question))
              /\ stored' = session'
              /\ skipped' = With(skipped, added_flashcard_id + 1, 0)
              /\ UNCHANGED menu
    /\ UNCHANGED <<window, last_flashcard_id, flashcards, position, not_studied_flashcard>>

\* choice 2 of add_flashcards
add_exit ==
    /\ menu = "add"
    /\ menu' = "main"
    /\ UNCHANGED <<window, stored, session, last_flashcard_id, added_flashcard_id,
                   flashcards, position, not_studied_flashcard, skipped>>

\* choice 2 of the main menu with rows in the table: study_flashcards starts
main_practice ==
    /\ menu = "main" /\ Ids(stored) # {}
    /\ flashcards' = Ascend(Ids(session))
    /\ position' = 1 /\ not_studied_flashcard' = 0
    /\ menu' = "study"
    /\ UNCHANGED <<window, stored, session, last_flashcard_id, added_flashcard_id, skipped>>

\* the card is not due: its count goes up, committed unless the card is the
\* last of a session without a due card, where the loop breaks first
study_skip ==
    /\ menu = "study"
    /\ LET id == flashcards[position]
       IN  /\ session[id].sessions_since_last_studied < session[id].box - 1
           /\ session' = With(session, id,
                  [session[id] EXCEPT !.sessions_since_last_studied = @ + 1])
           /\ not_studied_flashcard' = not_studied_flashcard + 1
           /\ skipped' = SkippedAgain(id)
           /\ IF not_studied_flashcard + 1 = Len(flashcards)
              THEN /\ position' = 0 /\ menu' = "main"
                   /\ UNCHANGED stored
              ELSE /\ stored' = session'
                   /\ NextCard
    /\ UNCHANGED <<window, last_flashcard_id, added_flashcard_id, flashcards>>

\* the card is due and the user chooses "y" or "n": check_whether_learned,
\* then the count is set to 0 and committed
study_answer ==
    /\ menu = "study"
    /\ LET id == flashcards[position]
       IN  /\ ~(session[id].sessions_since_last_studied < session[id].box - 1)
           /\ \E user_choice \in {"y", "n"} :
                session' = Studied(check_whether_learned(session, id, user_choice), id)
           /\ stored' = session'
           /\ skipped' = IF id \in Ids(session') THEN [skipped EXCEPT ![id] = 0]
                         ELSE Without(skipped, id)
    /\ NextCard
    /\ UNCHANGED <<window, last_flashcard_id, added_flashcard_id, flashcards,
                   not_studied_flashcard>>

\* the card is due and the user chooses "u": update_flashcard deletes the
\* card ("d") or edits its texts ("e": a blank text changes and commits nothing)
study_update ==
    /\ menu = "study"
    /\ LET id == flashcards[position]
       IN  /\ ~(session[id].sessions_since_last_studied < session[id].box - 1)
           /\ \/ /\ session' = Without(session, id)
                 /\ stored' = session'
                 /\ skipped' = Without(skipped, id)
              \/ /\ \E new_question \in Questions :
                      session' = With(session, id, [session[id] EXCEPT !.question = new_question])
                 /\ stored' = session'
                 /\ skipped' = [skipped EXCEPT ![id] = 0]
              \/ /\ skipped' = [skipped EXCEPT ![id] = 0]
                 /\ UNCHANGED <<stored, session>>
    /\ NextCard
    /\ UNCHANGED <<window, last_flashcard_id, added_flashcard_id, flashcards,
                   not_studied_flashcard>>

\* choice 3 of the main menu: the process ends
main_exit ==
    /\ menu = "main"
    /\ menu' = "exited"
    /\ UNCHANGED <<window, stored, session, last_flashcard_id, added_flashcard_id,
                   flashcards, position, not_studied_flashcard, skipped>>

FlashInit ==
    /\ FlashOff
    /\ fs \in {Disk(Absent, Absent, Absent)}
    /\ sel_1 = "" /\ file_choice = "" /\ input_files = "disabled"
    /\ files = <<>> /\ self_data = <<>>
    /\ sel_2 = FALSE /\ gamma_pp = "" /\ gamma_pp_input = "disabled"
    /\ sel_3 = FALSE /\ gamma_ee = "" /\ gamma_ee_input = "disabled"
    /\ messages = <<>> /\ output = <<>>
    /\ pc = "exited" /\ handler = "" /\ err = "" /\ analyses = 0
    /\ data = <<>> /\ different_decay = FALSE /\ gamma_ee_unknown = FALSE
    /\ custom_gamma = 0 /\ popt = <<>> /\ pcov = <<>> /\ outliers = <<>>
    /\ chi_squared_red = Num(0) /\ message = NoMessage
    /\ calls = NoCalls /\ fit = NoFit /\ resid = NoResid

FlashNext ==
    \/ main
    \/ main_add_flashcards
    \/ add_flashcard
    \/ add_exit
    \/ main_practice
    \/ study_skip
    \/ study_answer
    \/ study_update
    \/ main_exit

FlashSpec == FlashInit /\ [][FlashNext]_vars

(***************************************************************************)
(* Properties.                                                             *)
(***************************************************************************)
\* the files the running (or just ended) analysis handler passed to read_data
ReadNames == IF handler = "run_default" THEN FILE_NAMES ELSE ConfirmBranch.names

\* the state right after an analysis handler has called read_data
ReadReturned == handler \in {"run_default", "confirm_selection"} /\ pc = "initial_filter"
ReadRaised ==
    /\ handler \in {"run_default", "confirm_selection"}
    /\ pc = "idle" /\ err # "" /\ messages = <<Msg("Running the script...")>>

RECURSIVE Concat(_)
Concat(ss) == IF ss = <<>> THEN <<>> ELSE Head(ss) \o Concat(Tail(ss))

\* the lines of the files among names that open, in reading order
LinesRead(names) ==
    Concat([i \in 1..Len(names) |->
                IF fs[names[i]].open = "ok" THEN fs[names[i]].lines ELSE <<>>])

\* a line the ingestion contract retains: exactly three comma-separated
\* numeric fields, no nan, energy >= 0, cross section >= 0, uncertainty > 0
ContractValid(line) ==
    LET f == Split(Chars(line))
    IN  /\ ~MatchNan(Chars(line))
        /\ Len(f) = 3
        /\ \A i \in 1..3 : IsFloat(f[i]) /\ ~IsNan(Float(f[i]))
        /\ Float(f[1]) >= 0 /\ Float(f[2]) >= 0 /\ Float(f[3]) > 0

ContractEntries(lines) ==
    LET valid == SelectSeq(lines, ContractValid)
    IN  [i \in 1..Len(valid) |->
            [k \in 1..3 |-> Float(Split(Chars(valid[i]))[k])]]

\* C1: read_data never aborts on the content of a line, and retains exactly
\* the lines that are three numeric fields without nan within the bounds:
\* whenever an analysis handler has read files that open or are missing,
\* read_data has returned and the dataset is the sorted array of those lines.
C1_LinesNeverAbort ==
    ((ReadReturned \/ ReadRaised)
        /\ \A i \in 1..Len(ReadNames) : fs[ReadNames[i]].open # "PermissionError")
    => (ReadReturned /\ data = SortByEnergy(ContractEntries(LinesRead(ReadNames))))

\* C2: no fitting step is started on an empty dataset: run_analysis is never
\* entered, and the global pass never invoked, with zero records.
C2_NoFitOnEmpty == pc = "initial_filter" => data # <<>>

\* the signed residuals observed - predicted
signed_residuals(d, p, flag) ==
    [i \in 1..Len(d) |-> d[i][2] - Predicted(d[i][1], p, flag)]

\* the z-scores above 4 of a column a: z > 4 at the indices of the result
ZAbove4(a) ==
    LET n == Len(a)
        s == SumSeq(a)
        v == ScaledVariance(a)
    IN  [i \in 1..n |-> v > 0 /\ n * a[i] - s > 0
                          /\ (n * a[i] - s) * (n * a[i] - s) > 16 * v]

\* the z-scores below 4 of a column a (a nan z-score is not below 4)
ZUnder4(a) ==
    LET n == Len(a)
        s == SumSeq(a)
        v == ScaledVariance(a)
    IN  [i \in 1..n |-> v > 0 /\ (n * a[i] - s <= 0
                          \/ (n * a[i] - s) * (n * a[i] - s) < 16 * v)]

C4_GlobalPassKeeps ==
    [][(pc = "initial_filter" /\ data # <<>> /\ ~Ragged(data)) =>
         LET y == Column(data, 2)
             s == SumSeq(y)
             v == ScaledVariance(y)
         IN  data' = Pick(data, [i \in 1..Len(data) |->
                        (s - Len(data) * y[i]) * (s - Len(data) * y[i]) <= 25 * v], TRUE)]_vars

\* C5: the global pass runs once, before the first solver call; then solver
\* call and residual pass alternate, the residual pass with the parameters
\* of the solver call before it; fit_to_data returns exactly after a
\* residual pass that dropped nothing, and otherwise the next solver call
\* gets the retained records.
C5_LoopOrder ==
    /\ calls.initial_filter <= 1
    /\ calls.curve_fit > 0 => calls.initial_filter = 1
    /\ pc = "curve_fit" =>
          /\ calls.initial_filter = 1
          /\ calls.curve_fit = calls.filter_data
          /\ calls.filter_data > 0 =>
                /\ resid.kept < resid.n /\ outliers # <<>>
                /\ Len(data) = resid.kept
                /\ resid.n = fit.n /\ resid.popt = popt
    /\ pc = "filter_data" =>
          /\ calls.curve_fit = calls.filter_data + 1
          /\ fit.n = Len(data)
    /\ pc \in {"chi_square", "collect_results", "plot_fit"} =>
          /\ calls.filter_data > 0 /\ calls.curve_fit = calls.filter_data
          /\ resid.kept = resid.n /\ outliers = <<>>
          /\ Len(data) = resid.n
          /\ resid.n = fit.n /\ resid.popt = popt

\* fit_to_data has returned after a second solver call
C5_Witness == pc = "chi_square" /\ calls.curve_fit = 2 /\ calls.filter_data = 2

\* C6: the solver is never called on, and no result is returned for, a
\* dataset of fewer than parameter_count + 1 records.
C6_EnoughRecords ==
    /\ calls.curve_fit > 0 => fit.n >= Len(fit.p0) + 1
    /\ pc \in {"chi_square", "collect_results", "plot_fit"} => Len(data) >= Len(popt) + 1

\* C7: the reduced chi-square of every result is a number >= 0, never the
\* quotient of a division by N - P <= 0.
C7_ReducedChiSquare ==
    pc \in {"collect_results", "plot_fit"} =>
        /\ Len(data) > Len(popt)
        /\ chi_squared_red.kind = "num" /\ chi_squared_red.v >= 0

\* C8: every standard error of a summary is the root of a covariance
\* diagonal entry >= 0: no summary is produced from an invalid covariance.
C8_ValidUncertainties ==
    pc = "plot_fit" =>
        /\ \A i \in 1..Len(pcov) : pcov[i].kind = "num" /\ pcov[i].v >= 0
        /\ message.sigma_m_z.kind = "num" /\ message.sigma_gamma_z.kind = "num"
        /\ message.sigma_gamma_3.kind = "num"

\* C9: at convergence the residual pass is idempotent: filter_data of the
\* returned data with the returned popt and gamma_ee_unknown drops nothing.
C9_IdempotentAtConvergence ==
    pc = "chi_square" =>
        LET r == filter_data(data, popt, gamma_ee_unknown)
        IN  r.outliers = <<>> /\ r.new_data = data

\* fit_to_data has returned after a residual pass that dropped a record
C9_Witness == pc = "chi_square" /\ calls.filter_data >= 2 /\ Len(data) > 3

\* the variant of a run
Variant ==
    IF different_decay THEN "NewChannel"
    ELSE IF gamma_ee_unknown THEN "FreeVertexWidth" ELSE "Standard"

\* C10: the variant determines the parameter count and the vertex binding of
\* the fit: Standard 2 parameters and GAMMA_EE at both vertices,
\* FreeVertexWidth 3 parameters and the third at both vertices, NewChannel 3
\* parameters, the third at one vertex and GAMMA_EE at the other; the guess
\* of the third parameter is the caller's.
C10_VariantBinding ==
    calls.curve_fit > 0 =>
        LET vertices == {fit.gamma_vertex_1, fit.gamma_vertex_2}
            guess == Float(Chars(ConfirmBranch.guess))
        IN  CASE Variant = "Standard" ->
                    /\ Len(fit.p0) = 2 /\ Len(popt) = 2
                    /\ vertices = {"GAMMA_EE"}
              [] Variant = "FreeVertexWidth" ->
                    /\ Len(fit.p0) = 3 /\ Len(popt) = 3
                    /\ vertices = {"c"}
                    /\ fit.p0[3] = guess
              [] OTHER ->
                    /\ Len(fit.p0) = 3 /\ Len(popt) = 3
                    /\ vertices = {"c", "GAMMA_EE"}
                    /\ fit.p0[3] = guess

\* the solver has been called for a new decay with the guess of the entry
C10_Witness ==
    /\ pc = "filter_data" /\ Variant = "NewChannel"
    /\ fit.p0 = <<M_Z0, GAMMA_Z0, 20>> /\ Len(popt) = 3

\* the settings of the window
Settings == <<file_choice, input_files, files, sel_2, gamma_pp, gamma_pp_input,
              sel_3, gamma_ee, gamma_ee_input>>

\* a step of confirm_selection: the only handler that names itself and
\* leaves the settings alone
ConfirmPressed == pc = "idle" /\ handler' = "confirm_selection" /\ UNCHANGED Settings

\* C11: with new decay or gamma_ee free selected, confirm_selection calls
\* read_data and run_analysis only for a guess that parses as a float; for
\* any other guess it displays 'Invalid input provided.', calls neither and
\* leaves the displayed result as it was.
C11_GuessCheckedFirst ==
    [][(ConfirmPressed /\ (sel_2 \/ sel_3)) =>
         LET guess == IF sel_2 THEN gamma_pp ELSE gamma_ee
         IN  IF IsFloat(Chars(guess))
             THEN messages'[1] = Msg("Running the script...")
             ELSE /\ messages' = <<Msg("Invalid input provided.")>>
                  /\ pc' = "idle" /\ err' = ""
                  /\ calls' = NoCalls /\ data' = <<>>
                  /\ self_data' = self_data /\ output' = output]_vars

\* a guess was rejected while the result of an earlier analysis is displayed
C11_Witness ==
    /\ pc = "idle" /\ handler = "confirm_selection"
    /\ messages = <<Msg("Invalid input provided.")>>
    /\ output # <<>> /\ analyses = 1
    /\ ~IsFloat(Chars(IF sel_2 THEN gamma_pp ELSE gamma_ee))

\* the lines of the files among names that open are all lines read_data
\* skips or keeps as three values
LinesWellFormed(names) ==
    \A i \in 1..Len(LinesRead(names)) :
        LET r == ParsedLine[LinesRead(names)[i]]
        IN  r.kind # "IndexError" /\ (r.kind = "keep" => Len(r.entry) = 3)

\* the number of files among names that open
Opened(names) == Cardinality({i \in 1..Len(names) : fs[names[i]].open = "ok"})

\* C12: a file that cannot be opened, for any reason, is counted as a failed
\* import and does not abort read_data: whenever an analysis handler has read
\* files of well-formed lines, read_data has returned the records of the
\* files that open, with the message k/n for the k files opened of n.
C12_UnopenedCounted ==
    ((ReadReturned \/ ReadRaised) /\ LinesWellFormed(ReadNames))
    => /\ ReadReturned
       /\ messages = <<Msg("Running the script..."),
                       ImportMsg(<<Opened(ReadNames), Len(ReadNames)>>)>>
       /\ data = SortByEnergy(ReadLines(LinesRead(ReadNames), <<>>).output_array)

\* the energies of d ascend
Ascending(d) ==
    \A i \in 1..(Len(d) - 1) :
        ~IsNan(d[i][1]) /\ ~IsNan(d[i + 1][1]) /\ d[i][1] <= d[i + 1][1]

\* C13: the working dataset is sorted ascending by energy at every stage:
\* as read_data returns it, after the global pass and after every residual
\* pass up to the dataset fit_to_data returns.
C13_SortedAtEveryStage ==
    pc \in {"initial_filter", "curve_fit", "filter_data", "chi_square"} => Ascending(data)

\* C14: filtering builds new datasets and never edits the one it was given:
\* run_analysis starts from the dataset of the caller (self.data), and no
\* step of it, from the global pass to its return, changes that dataset.
C14_CallerDatasetUntouched ==
    [][/\ pc' = "initial_filter" => data' = self_data'
       /\ pc \notin {"idle", "exited"} => self_data' = self_data]_vars

\* fit_to_data has returned fewer records than it was given, and the dataset
\* of the caller still holds all that were read
C14_Witness ==
    /\ pc = "chi_square" /\ calls.filter_data >= 2
    /\ Len(data) < Len(self_data)
    /\ self_data = ReadTable[<<fs, ReadNames>>].data

\* the solver returned a covariance that is unusable (an entry inf or nan)
Unusable(c) == \E i \in 1..Len(c) : c[i].kind # "num"

\* C15: a failure of the solver in the loop, by non-convergence or by an
\* unusable covariance, ends the fit without a result: fit_to_data never
\* returns, and no summary is made, with an unusable covariance, and after
\* a RuntimeError of the solver nothing of the run is left.
C15_NoResultAfterSolverFailure ==
    /\ pc \in {"chi_square", "collect_results", "plot_fit"} => ~Unusable(pcov)
    /\ err = "RuntimeError" => (pc = "idle" /\ popt = <<>> /\ message = NoMessage)

\* C16: for a dataset that is exactly the model at the parameters the solver
\* returns (every residual zero), the residual pass drops nothing and
\* fit_to_data returns the full dataset.
C16_ZeroNoiseRetained ==
    [][(/\ pc = "filter_data"
        /\ \A i \in 1..Len(data) :
              data[i][2] = Predicted(data[i][1], popt,
                  FitBranch(different_decay, gamma_ee_unknown, custom_gamma).filter_flag))
       => (pc' = "chi_square" /\ data' = data /\ outliers' = <<>>)]_vars

\* how often e occurs in s
Count(s, e) == Cardinality({i \in 1..Len(s) : s[i] = e})

\* a is b with some entries left out
RECURSIVE IsSubseq(_, _)
IsSubseq(a, b) ==
    IF a = <<>> THEN TRUE
    ELSE IF b = <<>> THEN FALSE
    ELSE IF Head(a) = Head(b) THEN IsSubseq(Tail(a), Tail(b))
    ELSE IsSubseq(a, Tail(b))

\* C17: filter_data partitions its input: the retained and the dropped
\* records together are the input records, each once, both in input order,
\* and the dropped list is empty exactly when the retained dataset is the
\* input.
C17_FilterPartitions ==
    [][pc = "filter_data" =>
         /\ Len(data') + Len(outliers') = Len(data)
         /\ \A i \in 1..Len(data) :
               Count(data', data[i]) + Count(outliers', data[i]) = Count(data, data[i])
         /\ IsSubseq(data', data) /\ IsSubseq(outliers', data)
         /\ (outliers' = <<>>) <=> (data' = data)]_vars

\* a residual pass has split its input into retained and dropped records
C17_Witness ==
    /\ pc = "curve_fit" /\ calls.filter_data >= 1
    /\ data # <<>> /\ outliers # <<>>
    /\ Len(data) + Len(outliers) = resid.n

\* C18: once a handler has returned, the new decay (sel_2) and gamma_ee
\* free (sel_3) are never both selected, and the entry of the gamma_ee guess
\* is never enabled while the new decay is selected.
C18_OptionsExclusive ==
    pc = "idle" => (~(sel_2 /\ sel_3) /\ (sel_2 => gamma_ee_input = "disabled"))

\* the new decay was selected after gamma_ee had been free and its guess
\* typed: sel_3 is off and its entry disabled
C18_Witness ==
    /\ pc = "idle" /\ sel_2 /\ ~sel_3
    /\ gamma_ee = "20" /\ gamma_ee_input = "disabled"

\* C19: whenever the new decay (sel_2) is selected the file choice is
\* 'Choose different files' and the button to choose files is enabled; with
\* 'Use default files' chosen sel_2 is off and its entry disabled.
C19_NewDecayNeedsFiles ==
    pc = "idle" =>
        /\ sel_2 => (file_choice = "Choose different files" /\ input_files = "normal")
        /\ file_choice = "Use default files" =>
              (~sel_2 /\ gamma_pp_input = "disabled" /\ input_files = "disabled")

\* 'Use default files' was chosen after the new decay had been selected and
\* its guess typed
C19_Witness ==
    /\ pc = "idle" /\ file_choice = "Use default files"
    /\ gamma_pp = "20" /\ ~sel_2 /\ gamma_pp_input = "disabled"

\* every file on disk opens or is missing, and holds well-formed lines
DiskWellFormed ==
    \A n \in FileNames :
        fs[n].open # "PermissionError" /\ LinesWellFormed(<<n>>)

\* C20: for settings that are valid (neither option selected, or the
\* selected option with a numeric guess) a press of 'Confirm Selection'
\* starts run_analysis with the current selection as its arguments.
C20_ConfirmRunsSelection ==
    [][(/\ ConfirmPressed /\ DiskWellFormed
        /\ (sel_2 \/ sel_3) => IsFloat(Chars(IF sel_2 THEN gamma_pp ELSE gamma_ee)))
       => /\ pc' = "initial_filter" /\ calls' = NoCalls
          /\ different_decay' = sel_2 /\ gamma_ee_unknown' = sel_3
          /\ (sel_2 \/ sel_3) =>
                custom_gamma' = Float(Chars(IF sel_2 THEN gamma_pp ELSE gamma_ee))]_vars

\* the records of the run after the global pass
AfterGlobalPass == Len(initial_filter(self_data))

\* C21: the loop of fit_to_data ends: an iteration that does not converge
\* leaves strictly fewer records, all of them among those it started with,
\* so before each solver call the calls made and the records left are
\* together at most the N records of the global pass (at most N calls), and
\* every call of run_analysis returns or raises.
C21_LoopTerminates ==
    /\ [][(pc = "filter_data" /\ pc' = "curve_fit")
            => (Len(data') < Len(data) /\ IsSubseq(data', data))]_vars
    /\ [](pc = "curve_fit" => calls.curve_fit + Len(data) <= AfterGlobalPass)
    /\ <>Ended

\* a call has returned after a loop of several solver calls that dropped records
C21_Witness ==
    /\ pc = "returned" /\ calls.curve_fit >= 2
    /\ Len(data) < AfterGlobalPass

\* the width the solver's lambda passes at a vertex, for the fitted popt
VertexWidth(vertex) == IF vertex = "c" THEN popt[3] ELSE GAMMA_EE

\* the prediction of the function the solver fitted, at the fitted popt
FittedPrediction(energy) ==
    cross_section(energy, popt[1], popt[2],
                  VertexWidth(fit.gamma_vertex_1), VertexWidth(fit.gamma_vertex_2))

\* the entries of the working dataset within 4 sigma of the fitted function
FittedKeep ==
    LET dev == [i \in 1..Len(data) |-> Abs(data[i][2] - FittedPrediction(data[i][1]))]
    IN  [i \in 1..Len(data) |-> ZBelow4(Stats(dev), dev[i])]

\* the chi-square of the working dataset against the fitted function
FittedChiSquare ==
    SumSeq([i \in 1..Len(data) |->
        LET r == data[i][2] - FittedPrediction(data[i][1])
        IN  (r * r) \div (data[i][3] * data[i][3])])

\* the name collect_results should give the third parameter
FittedLabel ==
    IF {fit.gamma_vertex_1, fit.gamma_vertex_2} = {"c"} THEN "electron-positron"
    ELSE IF "c" \in {fit.gamma_vertex_1, fit.gamma_vertex_2} THEN "new decay"
    ELSE "none"

\* C22: in one call of run_analysis, whatever its two flags (both true
\* included), every stage binds the third parameter to the vertices the
\* solver bound it to: the residual pass, the reduced chi-square and the
\* label of the summary are those of the function the solver fitted.
C22_SameBindingEveryStage ==
    [][/\ (pc = "filter_data" /\ pc' # pc)
            => data' = Pick(data, FittedKeep, TRUE)
       /\ (pc = "chi_square" /\ pc' = "collect_results")
            => chi_squared_red' = Divide(FittedChiSquare, Len(data) - Len(popt))
       /\ (pc = "collect_results" /\ pc' = "plot_fit")
            => message'.third = FittedLabel]_vars

\* C23: whatever the operations of the main menu before it, a flashcard that
\* is added gets an id no stored flashcard has, and adding it does not fail.
C23_FreshIds ==
    [][(menu = "add" /\ added_flashcard_id' # added_flashcard_id)
          => (added_flashcard_id' \notin Ids(stored) /\ menu' = "add")]_vars

\* the boxes of the rows
BoxesIn(rows, boxes) == \A id \in Ids(rows) : rows[id].box \in boxes

\* C24: every stored flashcard is in box 1, 2 or 3: a card is added in box 1;
\* for the card at hand in a study session a correct answer moves it from
\* box b < 3 to box b + 1 and removes it only from box 3, a wrong answer
\* puts it in box 1; no step changes a box in another way.
C24_BoxesOneToThree ==
    /\ [](BoxesIn(stored, {1, 2, 3}) /\ BoxesIn(session, {1, 2, 3}))
    /\ [](menu = "study" =>
            LET id == flashcards[position]
                b == session[id].box
                right == check_whether_learned(session, id, "y")
                wrong == check_whether_learned(session, id, "n")
            IN  /\ b < 3 => (id \in Ids(right) /\ right[id].box = b + 1)
                /\ id \notin Ids(right) => b = 3
                /\ id \in Ids(wrong) /\ wrong[id].box = 1
                /\ Without(right, id) = Without(session, id)
                /\ Without(wrong, id) = Without(session, id))
    /\ [][\A id \in Ids(session') :
            IF id \in Ids(session)
            THEN session'[id].box \in {session[id].box, session[id].box + 1, 1}
            ELSE session'[id].box = 1]_vars

\* a card that two correct answers have moved to box 3 is due in a session
C24_Witness ==
    /\ menu = "study"
    /\ session[flashcards[position]].box = 3
    /\ session[flashcards[position]].sessions_since_last_studied = 2

\* the outcome r of read_data is the one the handler that has just run shows
ShownOutcome(r) ==
    IF r.status = "ok"
    THEN /\ self_data' = r.data /\ err' = ""
         /\ messages' = <<Msg("Running the script..."), ImportMsg(r.message)>>
    ELSE err' = r.status

\* C25: with 'Choose different files' chosen and files picked, confirming the
\* analysis with gamma_ee free and a numeric guess reads the files the user
\* picked, not the default files.
C25_ReadsChosenFiles ==
    [][(/\ ConfirmPressed /\ sel_3 /\ ~sel_2 /\ IsFloat(Chars(gamma_ee))
        /\ file_choice = "Choose different files" /\ files # <<>>)
       => \E r \in ReadDataOutcomes(files) : ShownOutcome(r)]_vars

\* C26: filter_data retains at least one record of a dataset that is not
\* empty, so the loop of fit_to_data never comes back to the solver with an
\* empty dataset.
C26_FilterKeepsSome ==
    [][(pc = "filter_data" /\ data # <<>>)
          => (data' # <<>> /\ Len(data') + Len(outliers') = Len(data))]_vars

\* 0 <= sessions_since_last_studied <= box - 1 in every row
CountsInRange(rows) ==
    \A id \in Ids(rows) :
        /\ 0 <= rows[id].sessions_since_last_studied
        /\ rows[id].sessions_since_last_studied <= rows[id].box - 1

\* the steps of a study session on the card at hand: it is skipped, or presented
SkipStep == menu = "study" /\ not_studied_flashcard' = not_studied_flashcard + 1
PresentStep == menu = "study" /\ not_studied_flashcard' = not_studied_flashcard

\* C27: at the end of every study session 0 <= sessions_since_last_studied
\* <= box - 1 in every stored card; a card is presented exactly when its
\* count is at least box - 1 and skipped otherwise, a skip adding one to the
\* count and an answer setting it to 0; so a card of box b is skipped in
\* exactly b - 1 sessions in a row before it is presented again.
C27_SkippedBoxMinusOneSessions ==
    [][LET id == flashcards[position]
           row == session[id]
       IN  /\ (menu = "study" /\ menu' = "main")
                => (CountsInRange(session') /\ CountsInRange(stored'))
           /\ SkipStep
                => /\ row.sessions_since_last_studied < row.box - 1
                   /\ session'[id].sessions_since_last_studied
                          = row.sessions_since_last_studied + 1
                   /\ skipped[id] < row.box - 1
           /\ PresentStep
                => /\ row.sessions_since_last_studied >= row.box - 1
                   /\ \A user_choice \in {"y", "n"} :
                        CountsInRange(Studied(check_whether_learned(session, id, user_choice), id))
                   /\ skipped[id] = row.box - 1]_vars

====
